---- MODULE Spec2Model ----
(***************************************************************************)
(* A model of square-rs: the LocationCreationWrapper builder               *)
(* (src/api/locations.rs), the endpoint rendering (src/api/mod.rs) and the *)
(* request dispatcher SquareClient::request (src/client.rs).               *)
(*                                                                         *)
(* Strings are TLA+ strings (\o is concatenation), except the access token *)
(* and the Authorization header, which are sequences of byte values,       *)
(* because header construction inspects them byte by byte.                 *)
(***************************************************************************)
EXTENDS Integers, Sequences, FiniteSets, TLC

VARIABLES
    body,       \* Builder.body: the LocationCreationWrapper being accumulated
    calls,      \* the setter calls made on the builder so far, in call order
    built,      \* the result of build(): NotBuilt until the builder is consumed
    client,     \* the SquareClient handle: access_token, client_mode
    req,        \* the request() call in progress or last finished
    wire,       \* the HTTP exchanges issued by the request() call in req
    inflight    \* the request() calls of concurrent callers on the one handle:
                \* for each caller its call (req) and its exchanges (wire)

vars == <<body, calls, built, client, req, wire, inflight>>

(***************************************************************************)
(* Option<T> and Result<T, E>                                              *)
(***************************************************************************)
None == [tag |-> "None"]
Some(v) == [tag |-> "Some", val |-> v]
is_some(o) == o.tag = "Some"

Ok(v) == [tag |-> "Ok", val |-> v]
Err(e) == [tag |-> "Err", err |-> e]
is_ok(r) == r.tag = "Ok"
is_err(r) == r.tag = "Err"

(***************************************************************************)
(* Bounds and input sets                                                   *)
(***************************************************************************)
\* The longest chain of setter calls made on one builder.
MaxCalls == 3

\* The number of callers that share one handle and call request() concurrently.
NumCallers == 2

Callers == 1..NumCallers

Names == {"", "The Foo Bar"}
Capabilities == {"CREDIT_CARD_PROCESSING", "AUTOMATIC_TRANSFERS"}
Periods == {"MON", "TUE"}
CapabilityVecs == {<<>>, <<"AUTOMATIC_TRANSFERS", "CREDIT_CARD_PROCESSING">>}
BusinessHoursArgs == {[periods |-> <<>>], [periods |-> <<"TUE", "MON">>]}

(***************************************************************************)
(* Location: every field is an Option, absent by default.                  *)
(***************************************************************************)
LocationFields ==
    {"id", "name", "business_email", "address", "timezone", "capabilities",
     "status", "created_id", "coordinates", "country", "created_at",
     "currency", "description", "facebook_url", "full_format_logo_url",
     "logo_url", "instagram_username", "language_code", "mcc", "merchant_id",
     "phone_number", "pos_background_url", "tax_ids", "twitter_username",
     "type_name", "business_hours", "business_name", "website_url"}

LocationDefault == [f \in LocationFields |-> None]

\* LocationCreationWrapper::default()
LocationCreationWrapperDefault == [location |-> LocationDefault]

BusinessHours(ps) == [periods |-> ps]

(***************************************************************************)
(* impl Validate for LocationCreationWrapper                               *)
(***************************************************************************)
ValidationError == "ValidationError"

validate_always_ok(self) == Ok(self)

validate_requires_nonempty(self) ==
    IF is_some(self.location.name) /\ self.location.name.val # ""
    THEN Ok(self)
    ELSE Err(ValidationError)

validate(self) ==
    IF is_some(self.location.name) THEN Ok(self) ELSE Err(ValidationError)

(***************************************************************************)
(* impl Builder<LocationCreationWrapper, T>: each setter takes the         *)
(* builder's body and returns the body it leaves in the builder. Modelled  *)
(* are the four setters of the two collection fields and six of the        *)
(* setters that write one Option field.                                    *)
(***************************************************************************)
name_from_default(self, v) ==
    [location |-> [LocationDefault EXCEPT !.name = Some(v)]]

name(self, v) == [self EXCEPT !.location.name = Some(v)]

address(self, v) == [self EXCEPT !.location.address = Some(v)]

business_email(self, v) == [self EXCEPT !.location.business_email = Some(v)]

add_business_hours_period(self, v) ==
    IF is_some(self.location.business_hours)
    THEN [self EXCEPT !.location.business_hours =
              Some(BusinessHours(Append(@.val.periods, v)))]
    ELSE [self EXCEPT !.location.business_hours = Some(BusinessHours(<<v>>))]

business_hours(self, v) == [self EXCEPT !.location.business_hours = Some(v)]

add_capability_prepend(self, v) ==
    IF is_some(self.location.capabilities)
    THEN [self EXCEPT !.location.capabilities = Some(<<v>> \o @.val)]
    ELSE [self EXCEPT !.location.capabilities = Some(<<v>>)]

add_capability(self, v) ==
    IF is_some(self.location.capabilities)
    THEN [self EXCEPT !.location.capabilities = Some(Append(@.val, v))]
    ELSE [self EXCEPT !.location.capabilities = Some(<<v>>)]

capabilities_extends(self, v) ==
    IF is_some(self.location.capabilities)
    THEN [self EXCEPT !.location.capabilities = Some(@.val \o v)]
    ELSE [self EXCEPT !.location.capabilities = Some(v)]

capabilities(self, v) == [self EXCEPT !.location.capabilities = Some(v)]

facebook_url_into_name(self, v) == [self EXCEPT !.location.name = Some(v)]

facebook_url(self, v) == [self EXCEPT !.location.facebook_url = Some(v)]

location_type(self, v) == [self EXCEPT !.location.type_name = Some(v)]

website_url(self, v) == [self EXCEPT !.location.website_url = Some(v)]

\* The arguments each setter is called with.
SetterArgs ==
    [name |-> Names,
     address |-> {"1 Main St"},
     business_email |-> {"foo@bar.com"},
     add_business_hours_period |-> Periods,
     business_hours |-> BusinessHoursArgs,
     add_capability |-> Capabilities,
     capabilities |-> CapabilityVecs,
     facebook_url |-> {"some_url", "other_url"},
     location_type |-> {"PHYSICAL"},
     website_url |-> {"example-website.com"}]

Setters == DOMAIN SetterArgs

\* The setter named op applied to a builder body.
ApplySetter(op, self, v) ==
    CASE op = "name" -> name(self, v)
      [] op = "address" -> address(self, v)
      [] op = "business_email" -> business_email(self, v)
      [] op = "add_business_hours_period" -> add_business_hours_period(self, v)
      [] op = "business_hours" -> business_hours(self, v)
      [] op = "add_capability" -> add_capability(self, v)
      [] op = "capabilities" -> capabilities(self, v)
      [] op = "facebook_url" -> facebook_url(self, v)
      [] op = "location_type" -> location_type(self, v)
      [] op = "website_url" -> website_url(self, v)

NotBuilt == [tag |-> "NotBuilt"]

\* Builder::build: the finalizer consumes the builder and validates its body.
build(self) == validate(self)


(***************************************************************************)
(* ClientMode and SquareClient (src/client.rs)                             *)
(***************************************************************************)
ClientModes == {"Production", "Sandboxed"}

\* impl Default for ClientMode
ClientModeDefault == "Sandboxed"

\* Access tokens, as bytes: "tk", "t\nk" (a line feed), "" and "\tk".
Tokens == {<<116, 107>>, <<116, 10, 107>>, <<>>, <<9, 107>>}

\* SquareClient::new
new(access_token) ==
    [access_token |-> access_token, client_mode |-> ClientModeDefault]

production_resets_token(self) ==
    [access_token |-> <<>>, client_mode |-> "Production"]

production_toggles(self) ==
    [access_token |-> self.access_token,
     client_mode |-> IF self.client_mode = "Sandboxed" THEN "Production"
                     ELSE "Sandboxed"]

\* SquareClient::production
production(self) ==
    [access_token |-> self.access_token, client_mode |-> "Production"]

\* #[derive(Clone)] for SquareClient: the copy has a clone of each field.
clone(self) ==
    [access_token |-> self.access_token, client_mode |-> self.client_mode]

(***************************************************************************)
(* SquareAPI, Verb and the rendering of an endpoint (src/api/mod.rs)       *)
(***************************************************************************)
Families ==
    {"Payments", "Bookings", "Locations", "Catalog", "Customers", "Cards",
     "Checkout", "Inventory", "Sites", "Terminals", "Orders"}

Verbs == {"GET", "POST", "PUT", "PATCH", "DELETE"}

SquareAPI(family, path) == [family |-> family, path |-> path]

Display_checkout_as_cards(end_point) ==
    CASE end_point.family = "Payments" -> "payments" \o end_point.path
      [] end_point.family = "Bookings" -> "bookings" \o end_point.path
      [] end_point.family = "Locations" -> "locations" \o end_point.path
      [] end_point.family = "Catalog" -> "catalog" \o end_point.path
      [] end_point.family = "Customers" -> "customers" \o end_point.path
      [] end_point.family = "Cards" -> "cards" \o end_point.path
      [] end_point.family = "Checkout" -> "cards" \o end_point.path
      [] end_point.family = "Inventory" -> "inventory" \o end_point.path
      [] end_point.family = "Sites" -> "sites" \o end_point.path
      [] end_point.family = "Terminals" -> "terminals" \o end_point.path
      [] end_point.family = "Orders" -> "orders" \o end_point.path

\* impl fmt::Display for SquareAPI
Display(end_point) ==
    CASE end_point.family = "Payments" -> "payments" \o end_point.path
      [] end_point.family = "Bookings" -> "bookings" \o end_point.path
      [] end_point.family = "Locations" -> "locations" \o end_point.path
      [] end_point.family = "Catalog" -> "catalog" \o end_point.path
      [] end_point.family = "Customers" -> "customers" \o end_point.path
      [] end_point.family = "Cards" -> "cards" \o end_point.path
      [] end_point.family = "Checkout" -> "online-checkout" \o end_point.path
      [] end_point.family = "Inventory" -> "inventory" \o end_point.path
      [] end_point.family = "Sites" -> "sites" \o end_point.path
      [] end_point.family = "Terminals" -> "terminals" \o end_point.path
      [] end_point.family = "Orders" -> "orders" \o end_point.path

SQUARE_PRODUCTION_BASE == "https://connect.squareup.com/v2/"
SQUARE_SANDBOX_BASE == "https://connect.squareupsandbox.com/v2/"

\* SquareClient::endpoint
endpoint(self, end_point) ==
    IF self.client_mode = "Production"
    THEN SQUARE_PRODUCTION_BASE \o Display(end_point)
    ELSE SQUARE_SANDBOX_BASE \o Display(end_point)

(***************************************************************************)
(* SquareClient::request (src/client.rs)                                   *)
(***************************************************************************)
\* "Bearer " as bytes
Bearer == <<66, 101, 97, 114, 101, 114, 32>>

\* format!("Bearer {}", &self.access_token)
authorization_header(self) == Bearer \o self.access_token

HeaderValue_from_str_unchecked(s) == Ok(s)

\* header::HeaderValue::from_str: every byte must be a tab or a visible
\* character (32 and above, except 127).
HeaderValue_from_str(s) ==
    IF \A i \in 1..Len(s) : (s[i] >= 32 /\ s[i] # 127) \/ s[i] = 9
    THEN Ok(s)
    ELSE Err("InvalidHeaderValue")

\* RequestBuilder::json: the body serialized as JSON
to_json(v) == [content_type |-> "application/json", value |-> v]

\* The texts a response body can hold, and those serde_json::from_str
\* deserializes into a SquareResponse.
ResponseTexts == {"{}", "<html>Bad Gateway</html>", ""}
SquareResponseTexts == {"{}"}

SquareResponse(text) == [response |-> text]

\* serde_json::from_str(&response)
from_str(text) ==
    IF text \in SquareResponseTexts
    THEN Ok(SquareResponse(text))
    ELSE Err("SerdeJson")

\* The request bodies and query parameters request() is called with.
WrapperInputs ==
    {LocationCreationWrapperDefault,
     name(LocationCreationWrapperDefault, "The Foo Bar"),
     facebook_url(LocationCreationWrapperDefault, "some_url")}
JsonInputs == {None} \cup {Some(w) : w \in WrapperInputs}
ParameterInputs == {None, Some(<< <<"cursor", "c1">> >>)}
LocationIds == {"abc123", "LBQ9DAD5WCHB0"}
PathInputs == {""} \cup {"/" \o id : id \in LocationIds}

Idle == [pc |-> "idle"]

\* A call of request() that returned result.
Returned(r, result) == [r EXCEPT !.pc = "done", !.result = result]

\* The HTTP exchange builder.send() issues.
Exchange(self, verb, end_point, json, parameters, header) ==
    [verb |-> verb,
     url |-> endpoint(self, end_point),
     authorization |-> header,
     query |-> IF is_some(parameters) THEN parameters.val ELSE <<>>,
     json |-> IF is_some(json) THEN Some(to_json(json.val)) ELSE None]

\* request(), from its call to its first suspension at send().await, or to
\* its return when the header or the HTTP client cannot be built.
\* client_built: whether Client::builder().build() succeeds.
RequestStart(caller, verb, end_point, json, parameters, client_built) ==
    LET call == [pc |-> "send", caller |-> caller, verb |-> verb,
                 end_point |-> end_point, json |-> json,
                 parameters |-> parameters, http_client |-> "none",
                 response |-> None, result |-> None]
        header == HeaderValue_from_str(authorization_header(client))
    IN  /\ req.pc = "idle"
        /\ IF is_err(header)
           THEN /\ req' = Returned(call, Some(Err(header.err)))
                /\ wire' = <<>>
           ELSE IF ~client_built
           THEN /\ req' = Returned([call EXCEPT !.http_client = "failed"],
                                    Some(Err("Reqwest")))
                /\ wire' = <<>>
           ELSE /\ req' = [call EXCEPT !.http_client = "built"]
                /\ wire' = <<Exchange(client, verb, end_point, json,
                                      parameters, header.val)>>
        /\ UNCHANGED <<body, calls, built, client, inflight>>

SendDone_retries ==
    /\ req.pc = "send"
    /\ \E sent \in BOOLEAN :
          IF sent
          THEN req' = [req EXCEPT !.pc = "text"] /\ wire' = wire
          ELSE IF Len(wire) < 2
          THEN req' = req /\ wire' = Append(wire, wire[1])
          ELSE req' = Returned(req, Some(Err("Reqwest"))) /\ wire' = wire
    /\ UNCHANGED <<body, calls, built, client, inflight>>

\* send().await completes: a transport error returns, a response moves on to
\* text().await.
SendDone ==
    /\ req.pc = "send"
    /\ \E sent \in BOOLEAN :
          req' = IF sent THEN [req EXCEPT !.pc = "text"]
                 ELSE Returned(req, Some(Err("Reqwest")))
    /\ UNCHANGED <<body, calls, built, client, wire, inflight>>

\* text().await completes: a failed read returns the error, a body that was
\* read is deserialized and the outcome returned.
TextDone ==
    /\ req.pc = "text"
    /\ \/ req' = Returned(req, Some(Err("Reqwest")))
       \/ \E text \in ResponseTexts :
              req' = Returned([req EXCEPT !.response = Some(text)],
                              Some(from_str(text)))
    /\ UNCHANGED <<body, calls, built, client, wire, inflight>>


\* request() has returned: its caller takes the result, and the borrow of the
\* handle ends.
Finish ==
    /\ req.pc = "done"
    /\ req' = Idle
    /\ wire' = <<>>
    /\ UNCHANGED <<body, calls, built, client, inflight>>

(***************************************************************************)
(* The builder's operations                                                *)
(***************************************************************************)
\* One setter call on the builder: it consumes the builder and returns it
\* with the field written. A builder that build() consumed takes no more.
Call(op, v) ==
    /\ built = NotBuilt
    /\ Len(calls) < MaxCalls
    /\ body' = ApplySetter(op, body, v)
    /\ calls' = Append(calls, [op |-> op, arg |-> v])
    /\ UNCHANGED <<built, client, req, wire, inflight>>

Call_name == \E v \in SetterArgs.name : Call("name", v)

Call_address == \E v \in SetterArgs.address : Call("address", v)

Call_business_email == \E v \in SetterArgs.business_email : Call("business_email", v)

Call_add_business_hours_period == \E v \in SetterArgs.add_business_hours_period : Call("add_business_hours_period", v)

Call_business_hours == \E v \in SetterArgs.business_hours : Call("business_hours", v)

Call_add_capability == \E v \in SetterArgs.add_capability : Call("add_capability", v)

Call_capabilities == \E v \in SetterArgs.capabilities : Call("capabilities", v)

Call_facebook_url == \E v \in SetterArgs.facebook_url : Call("facebook_url", v)

Call_location_type == \E v \in SetterArgs.location_type : Call("location_type", v)

Call_website_url == \E v \in SetterArgs.website_url : Call("website_url", v)

\* build() consumes the builder and yields the validated body or the error.
Build ==
    /\ built = NotBuilt
    /\ built' = build(body)
    /\ UNCHANGED <<body, calls, client, req, wire, inflight>>

(***************************************************************************)
(* Locations (src/api/locations.rs): each method is one call of request(). *)
(***************************************************************************)
list ==
    \E cb \in BOOLEAN :
        RequestStart("list", "GET", SquareAPI("Locations", ""), None, None, cb)

create(new_location) ==
    \E cb \in BOOLEAN :
        RequestStart("create", "POST", SquareAPI("Locations", ""),
                     Some(new_location), None, cb)

update_without_id(updated_location, location_id) ==
    \E cb \in BOOLEAN :
        RequestStart("update", "PUT", SquareAPI("Locations", ""),
                     Some(updated_location), None, cb)

update(updated_location, location_id) ==
    \E cb \in BOOLEAN :
        RequestStart("update", "PUT",
                     SquareAPI("Locations", "/" \o location_id),
                     Some(updated_location), None, cb)

retrieve(location_id) ==
    \E cb \in BOOLEAN :
        RequestStart("retrieve", "GET",
                     SquareAPI("Locations", "/" \o location_id), None, None, cb)

List == list

Create == \E w \in WrapperInputs : create(w)

Update == \E w \in WrapperInputs, id \in LocationIds : update(w, id)

Retrieve == \E id \in LocationIds : retrieve(id)

\* request() called directly, with any verb, endpoint, body and parameters.
Request ==
    \E verb \in Verbs, family \in Families, path \in PathInputs,
       json \in JsonInputs, parameters \in ParameterInputs, cb \in BOOLEAN :
        RequestStart("request", verb, SquareAPI(family, path), json,
                     parameters, cb)

\* client = client.production(): the handle is moved, so no request() call
\* borrows it.
Production ==
    /\ req.pc = "idle"
    /\ client' = production(client)
    /\ UNCHANGED <<body, calls, built, req, wire, inflight>>

\* client.clone(): clone borrows the handle, so it can run during a call; the
\* handle followed from here on is the copy.
Clone ==
    /\ client' = clone(client)
    /\ UNCHANGED <<body, calls, built, req, wire, inflight>>

(***************************************************************************)
(* Concurrent callers: each holds a &SquareClient to the one handle and    *)
(* runs its own request() future; the futures interleave at their          *)
(* suspension points, send().await and text().await.                       *)
(***************************************************************************)
NoCall == [req |-> Idle, wire |-> <<>>]

\* The calls the concurrent callers make: those of the Locations methods.
ConcurrentCalls ==
    {[caller |-> "list", verb |-> "GET",
      end_point |-> SquareAPI("Locations", ""), json |-> None],
     [caller |-> "create", verb |-> "POST",
      end_point |-> SquareAPI("Locations", ""),
      json |-> Some(name(LocationCreationWrapperDefault, "The Foo Bar"))],
     [caller |-> "update", verb |-> "PUT",
      end_point |-> SquareAPI("Locations", "/abc123"),
      json |-> Some(name(LocationCreationWrapperDefault, "The Foo Bar"))],
     [caller |-> "retrieve", verb |-> "GET",
      end_point |-> SquareAPI("Locations", "/abc123"), json |-> None]}

\* Caller i calls request(): as RequestStart, on the caller's own future.
RequestStartC(i) ==
    \E c \in ConcurrentCalls, client_built \in BOOLEAN :
        LET call == [pc |-> "send", caller |-> c.caller, verb |-> c.verb,
                     end_point |-> c.end_point, json |-> c.json,
                     parameters |-> None, http_client |-> "none",
                     response |-> None, result |-> None]
            header == HeaderValue_from_str(authorization_header(client))
        IN  /\ inflight[i].req.pc = "idle"
            /\ inflight' =
                  [inflight EXCEPT ![i] =
                      IF is_err(header)
                      THEN [req |-> Returned(call, Some(Err(header.err))),
                            wire |-> <<>>]
                      ELSE IF ~client_built
                      THEN [req |-> Returned(
                                      [call EXCEPT !.http_client = "failed"],
                                      Some(Err("Reqwest"))),
                            wire |-> <<>>]
                      ELSE [req |-> [call EXCEPT !.http_client = "built"],
                            wire |-> <<Exchange(client, c.verb, c.end_point,
                                                c.json, None, header.val)>>]]
            /\ UNCHANGED <<body, calls, built, client, req, wire>>

SendDoneC_shared_client(i) ==
    /\ inflight[i].req.pc = "send"
    /\ \E sent \in BOOLEAN :
          inflight' =
              IF sent
              THEN [inflight EXCEPT ![i].req.pc = "text"]
              ELSE [j \in Callers |->
                      IF inflight[j].req.pc = "send"
                      THEN [inflight[j] EXCEPT
                              !.req = Returned(@, Some(Err("Reqwest")))]
                      ELSE inflight[j]]
    /\ UNCHANGED <<body, calls, built, client, req, wire>>

\* Caller i's send().await completes: as SendDone.
SendDoneC(i) ==
    /\ inflight[i].req.pc = "send"
    /\ \E sent \in BOOLEAN :
          inflight' =
              [inflight EXCEPT ![i].req =
                  IF sent THEN [@ EXCEPT !.pc = "text"]
                  ELSE Returned(@, Some(Err("Reqwest")))]
    /\ UNCHANGED <<body, calls, built, client, req, wire>>

\* Caller i's text().await completes: as TextDone.
TextDoneC(i) ==
    /\ inflight[i].req.pc = "text"
    /\ \/ inflight' = [inflight EXCEPT ![i].req =
                          Returned(@, Some(Err("Reqwest")))]
       \/ \E text \in ResponseTexts :
              inflight' =
                  [inflight EXCEPT ![i].req =
                      Returned([@ EXCEPT !.response = Some(text)],
                               Some(from_str(text)))]
    /\ UNCHANGED <<body, calls, built, client, req, wire>>

\* Caller i's request() has returned and its borrow of the handle ends.
FinishC(i) ==
    /\ inflight[i].req.pc = "done"
    /\ inflight' = [inflight EXCEPT ![i] = NoCall]
    /\ UNCHANGED <<body, calls, built, client, req, wire>>

\* client = client.production() between the callers' calls: the handle can
\* be moved only while no caller borrows it.
ProductionC ==
    /\ \A i \in Callers : inflight[i].req.pc = "idle"
    /\ Production

\* The location build() returned is handed to create or update, as in
\* build().await.unwrap() followed by locations().create(location).
CreateBuilt == is_ok(built) /\ create(built.val)

UpdateBuilt == is_ok(built) /\ \E id \in LocationIds : update(built.val, id)

(***************************************************************************)
(* Specifications                                                          *)
(***************************************************************************)
InitBuilder ==
    /\ body = LocationCreationWrapperDefault
    /\ calls = <<>>
    /\ built = NotBuilt
    /\ inflight = [i \in Callers |-> NoCall]

\* The dispatcher: a handle made by SquareClient::new, used for requests.
Init ==
    /\ InitBuilder
    /\ client \in {new(t) : t \in Tokens}
    /\ req = Idle
    /\ wire = <<>>

Next ==
    \/ Production
    \/ Clone
    \/ List
    \/ Create
    \/ Update
    \/ Retrieve
    \/ Request
    \/ SendDone
    \/ TextDone
    \/ Finish

Spec == Init /\ [][Next]_vars

\* The builder: Builder::from(LocationCreationWrapper::default()), a chain of
\* setters, build(), and the built location handed to create or update on
\* SquareClient::new("tk"), up to the HTTP exchange being issued.
InitB ==
    /\ InitBuilder
    /\ client = new(<<116, 107>>)
    /\ req = Idle
    /\ wire = <<>>

NextBuilder ==
    \/ Call_name
    \/ Call_address
    \/ Call_business_email
    \/ Call_add_business_hours_period
    \/ Call_business_hours
    \/ Call_add_capability
    \/ Call_capabilities
    \/ Call_facebook_url
    \/ Call_location_type
    \/ Call_website_url
    \/ Build
    \/ CreateBuilt
    \/ UpdateBuilt

SpecBuilder == InitB /\ [][NextBuilder]_vars

\* Concurrent callers on one handle made by SquareClient::new.
NextConcurrent ==
    \/ ProductionC
    \/ \E i \in Callers : RequestStartC(i)
    \/ \E i \in Callers : SendDoneC(i)
    \/ \E i \in Callers : TextDoneC(i)
    \/ \E i \in Callers : FinishC(i)

SpecConcurrent == Init /\ [][NextConcurrent]_vars


(***************************************************************************)
(* The history of setter calls, read without the setters' code             *)
(***************************************************************************)
\* The Location field a setter writes.
Target(op) ==
    CASE op = "add_business_hours_period" -> "business_hours"
      [] op = "add_capability" -> "capabilities"
      [] op = "location_type" -> "type_name"
      [] OTHER -> op

Appenders == {"add_business_hours_period", "add_capability"}

Called(op) == \E i \in 1..Len(calls) : calls[i].op = op

\* The index of the last call of the setter op in cs, 0 when there is none.
LastCall(cs, op) ==
    IF \E i \in 1..Len(cs) : cs[i].op = op
    THEN CHOOSE i \in 1..Len(cs) :
             /\ cs[i].op = op
             /\ \A j \in (i + 1)..Len(cs) : cs[j].op # op
    ELSE 0

\* The arguments of the calls of the setter op in cs after index k, in call
\* order.
RECURSIVE ArgsAfter(_, _, _)
ArgsAfter(cs, op, k) ==
    IF Len(cs) <= k THEN <<>>
    ELSE LET front == ArgsAfter(SubSeq(cs, 1, Len(cs) - 1), op, k)
         IN  IF cs[Len(cs)].op = op
             THEN Append(front, cs[Len(cs)].arg)
             ELSE front

\* The builder body a chain of setter calls leaves, starting from
\* Builder::from(LocationCreationWrapper::default()).
RECURSIVE Replay(_)
Replay(cs) ==
    IF cs = <<>> THEN LocationCreationWrapperDefault
    ELSE ApplySetter(cs[Len(cs)].op, Replay(SubSeq(cs, 1, Len(cs) - 1)),
                     cs[Len(cs)].arg)

\* The orders in which n calls can be made.
Orders(n) == {p \in [1..n -> 1..n] : \A i, j \in 1..n : p[i] = p[j] => i = j}

Reordered(cs, p) == [i \in 1..Len(cs) |-> cs[p[i]]]

\* What a field must hold after the calls cs: the last value written by its
\* overwriting setter, followed, for a collection, by what was appended since.
ExpectedField(cs, f) ==
    CASE f = "capabilities" ->
            LET k == LastCall(cs, "capabilities")
                added == ArgsAfter(cs, "add_capability", k)
            IN  IF k = 0 /\ added = <<>> THEN None
                ELSE Some((IF k = 0 THEN <<>> ELSE cs[k].arg) \o added)
      [] f = "business_hours" ->
            LET k == LastCall(cs, "business_hours")
                added == ArgsAfter(cs, "add_business_hours_period", k)
            IN  IF k = 0 /\ added = <<>> THEN None
                ELSE Some([periods |->
                        (IF k = 0 THEN <<>> ELSE cs[k].arg.periods) \o added])
      [] f = "type_name" ->
            LET k == LastCall(cs, "location_type")
            IN  IF k = 0 THEN None ELSE Some(cs[k].arg)
      [] OTHER ->
            LET k == LastCall(cs, f)
            IN  IF k = 0 THEN None ELSE Some(cs[k].arg)

(***************************************************************************)
(* Claims about the builder, checked under SpecBuilder                     *)
(***************************************************************************)
\* C1: a builder on which name() was never called fails build() with the
\* validation error, and nothing is dispatched as a result: no request() call
\* is made and no HTTP exchange is issued.
C1_BuildWithoutNameFails ==
    (built # NotBuilt /\ ~Called("name")) =>
        /\ built = Err(ValidationError)
        /\ req = Idle
        /\ wire = <<>>

\* The failing test's chain: facebook_url and location_type, then build().
C1_Witness ==
    /\ built = Err(ValidationError)
    /\ Len(calls) = 2
    /\ calls[1].op = "facebook_url"
    /\ calls[2].op = "location_type"

\* C2 as stated: after build() on a chain that includes name(), the result is
\* Ok and every field whose overwriting setter was called holds the last
\* value passed to that setter, every other field being None unless appended
\* to.
C2_Original ==
    (built # NotBuilt /\ Called("name")) =>
        /\ is_ok(built)
        /\ \A op \in Setters \ Appenders :
              Called(op) =>
                  built.val.location[Target(op)] =
                      Some(calls[LastCall(calls, op)].arg)
        /\ \A f \in LocationFields :
              (\A i \in 1..Len(calls) : Target(calls[i].op) # f) =>
                  built.val.location[f] = None

\* C2 amended: after build() on a chain that includes name(), the result is
\* Ok, it is the builder's body unmodified, and every field holds what the
\* calls put there: None when no call wrote it, else the last value passed to
\* its overwriting setter followed by the elements appended after that (the
\* appended elements alone when it was never overwritten).
C2_BuildRoundTrips ==
    (built # NotBuilt /\ Called("name")) =>
        /\ is_ok(built)
        /\ built.val = body
        /\ \A f \in LocationFields :
              built.val.location[f] = ExpectedField(calls, f)

\* A chain that overwrites capabilities and then appends to it, built.
C2_Witness ==
    /\ is_ok(built)
    /\ Len(calls) = 3
    /\ calls[1].op = "capabilities"
    /\ calls[2].op = "add_capability"
    /\ calls[3].op = "name"
    /\ built.val.location.capabilities =
          Some(<<"AUTOMATIC_TRANSFERS", "CREDIT_CARD_PROCESSING",
                 "AUTOMATIC_TRANSFERS">>)
    /\ built.val.location.facebook_url = None

\* C3 as stated: build() returns the same result for every order of the
\* calls that were made.
C3_Original ==
    built # NotBuilt =>
        \A p \in Orders(Len(calls)) :
            build(Replay(Reordered(calls, p))) = built

\* No two different calls write the same field.
Independent(cs) ==
    \A i, j \in 1..Len(cs) :
        \/ Target(cs[i].op) # Target(cs[j].op)
        \/ (cs[i].op = cs[j].op /\ cs[i].arg = cs[j].arg)

\* C3 amended: when no two different calls of the chain write the same field,
\* build() returns the same result for every order of the calls.
C3_IndependentSettersCommute ==
    (built # NotBuilt /\ Independent(calls)) =>
        \A p \in Orders(Len(calls)) :
            build(Replay(Reordered(calls, p))) = built

\* Three calls on three different fields, built: the passing test's chain in
\* another order.
C3_Witness ==
    /\ is_ok(built)
    /\ Len(calls) = 3
    /\ calls[1].op = "location_type"
    /\ calls[2].op = "facebook_url"
    /\ calls[3].op = "name"

\* C4: add_capability and add_business_hours_period append. With only the
\* appending setter called on a collection, it holds the elements added, in
\* call order; and whatever came before, the call appends its element to what
\* the collection held (a one-element collection when it was unset).
C4_AppendInCallOrder ==
    /\ (Called("add_capability") /\ ~Called("capabilities")) =>
          body.location.capabilities =
              Some(ArgsAfter(calls, "add_capability", 0))
    /\ (Called("add_business_hours_period") /\ ~Called("business_hours")) =>
          body.location.business_hours =
              Some([periods |->
                      ArgsAfter(calls, "add_business_hours_period", 0)])
    /\ calls # <<>> =>
          LET last == calls[Len(calls)]
              before == Replay(SubSeq(calls, 1, Len(calls) - 1)).location
          IN  /\ last.op = "add_capability" =>
                    body.location.capabilities =
                        Some((IF is_some(before.capabilities)
                              THEN before.capabilities.val ELSE <<>>)
                             \o <<last.arg>>)
              /\ last.op = "add_business_hours_period" =>
                    body.location.business_hours =
                        Some([periods |->
                            (IF is_some(before.business_hours)
                             THEN before.business_hours.val.periods ELSE <<>>)
                            \o <<last.arg>>])

\* Two different capabilities added, and two different periods.
C4_Witness ==
    /\ Len(calls) = 2
    /\ calls[1].op = "add_capability"
    /\ calls[2].op = "add_capability"
    /\ body.location.capabilities =
          Some(<<"CREDIT_CARD_PROCESSING", "AUTOMATIC_TRANSFERS">>)

\* C6 as stated: build() succeeds exactly when the name is present and is
\* not the empty string.
C6_Original ==
    built # NotBuilt =>
        (is_ok(built) <=>
            (is_some(body.location.name) /\ body.location.name.val # ""))

\* C6 amended: build() succeeds exactly when name() was called, whatever
\* string it was given, the empty string included; otherwise it fails with
\* the validation error.
C6_BuildNeedsNamePresent ==
    built # NotBuilt =>
        /\ is_ok(built) <=> Called("name")
        /\ is_err(built) => built = Err(ValidationError)

\* name("") was the last name call and build() succeeded.
C6_Witness ==
    /\ is_ok(built)
    /\ Called("name")
    /\ calls[LastCall(calls, "name")].arg = ""
    /\ built.val.location.name = Some("")


(***************************************************************************)
(* Claims about the dispatcher, checked under Spec                         *)
(***************************************************************************)
\* The base URL of each mode and the path prefix of each endpoint family, as
\* the interface documents them.
BaseUrlTable ==
    [Production |-> "https://connect.squareup.com/v2/",
     Sandboxed |-> "https://connect.squareupsandbox.com/v2/"]

PrefixTable ==
    [Payments |-> "payments", Bookings |-> "bookings",
     Locations |-> "locations", Catalog |-> "catalog",
     Customers |-> "customers", Cards |-> "cards",
     Checkout |-> "online-checkout", Inventory |-> "inventory",
     Sites |-> "sites", Terminals |-> "terminals", Orders |-> "orders"]

\* "Bearer tk" as bytes
BearerTk == <<66, 101, 97, 114, 101, 114, 32, 116, 107>>

\* C5 as stated: every body create or update sends has its location name
\* present.
C5_SentBodiesHaveName ==
    \A i \in 1..Len(wire) :
        req.caller \in {"create", "update"} =>
            /\ is_some(wire[i].json)
            /\ is_some(wire[i].json.val.value.location.name)

\* C7: production() changes the mode and nothing else, and nothing changes the
\* token: every step that changes the handle leaves it in Production mode with
\* the token it had, and an exchange issued by a handle in Production mode
\* goes to the production base URL with "Bearer " and that token as its
\* Authorization header.
C7_ProductionKeepsToken ==
    [][/\ client' # client =>
              /\ client'.access_token = client.access_token
              /\ client'.client_mode = "Production"
       /\ (client.client_mode = "Production" /\ wire' # wire /\ wire' # <<>>) =>
              /\ Len(wire') = 1
              /\ wire'[1].url =
                    "https://connect.squareup.com/v2/"
                        \o PrefixTable[req'.end_point.family]
                        \o req'.end_point.path
              /\ wire'[1].authorization =
                    <<66, 101, 97, 114, 101, 114, 32>> \o client.access_token
      ]_vars

\* A handle made with the token "tk" and switched to production has issued an
\* exchange.
C7_Witness ==
    /\ client.client_mode = "Production"
    /\ client.access_token = <<116, 107>>
    /\ wire # <<>>
    /\ wire[1].url = "https://connect.squareup.com/v2/locations"
    /\ wire[1].authorization = BearerTk

\* C8: the URL of an exchange is the mode's base URL, then the family's
\* prefix, then the caller's suffix unchanged; Locations with the suffixes ""
\* and "/abc123" give .../v2/locations and .../v2/locations/abc123; and two
\* different families never render to the same path for the same suffix.
C8_UrlIsBasePrefixSuffix ==
    /\ \A i \in 1..Len(wire) :
          /\ wire[i].url =
                BaseUrlTable[client.client_mode]
                    \o PrefixTable[req.end_point.family]
                    \o req.end_point.path
          /\ req.end_point = SquareAPI("Locations", "") =>
                wire[i].url \in
                    {"https://connect.squareup.com/v2/locations",
                     "https://connect.squareupsandbox.com/v2/locations"}
          /\ req.end_point = SquareAPI("Locations", "/abc123") =>
                wire[i].url \in
                    {"https://connect.squareup.com/v2/locations/abc123",
                     "https://connect.squareupsandbox.com/v2/locations/abc123"}
    /\ \A f1, f2 \in Families, path \in PathInputs :
          f1 # f2 =>
              Display(SquareAPI(f1, path)) # Display(SquareAPI(f2, path))

\* A sandbox handle has issued a GET to Locations with the suffix "/abc123".
C8_Witness ==
    /\ wire # <<>>
    /\ req.verb = "GET"
    /\ req.end_point = SquareAPI("Locations", "/abc123")
    /\ client.client_mode = "Sandboxed"
    /\ wire[1].url = "https://connect.squareupsandbox.com/v2/locations/abc123"

\* C9: a request() call issues at most one HTTP exchange and returns exactly
\* one outcome, a response or an error; an error is returned without a second
\* exchange, and a response only after the one exchange was sent and its
\* body was read and deserialized.
C9_OneExchangeOneOutcome ==
    /\ Len(wire) <= 1
    /\ req.pc \in {"send", "text"} => (req.result = None /\ Len(wire) = 1)
    /\ req.pc = "done" =>
          /\ is_some(req.result)
          /\ req.result.val.tag \in {"Ok", "Err"}
          /\ is_ok(req.result.val) =>
                /\ Len(wire) = 1
                /\ req.http_client = "built"
                /\ req.response = Some("{}")
                /\ req.result.val.val = [response |-> "{}"]
          /\ (is_err(req.result.val) /\ req.result.val.err = "SerdeJson") =>
                /\ Len(wire) = 1
                /\ is_some(req.response)
                /\ req.response.val # "{}"

\* A call that returned a response, and issued one exchange for it.
C9_Witness ==
    /\ req.pc = "done"
    /\ is_ok(req.result.val)
    /\ Len(wire) = 1

\* A byte HeaderValue cannot hold: a control character other than tab.
ControlByte(b) == (b < 32 /\ b # 9) \/ b = 127

\* C10: with a token that holds such a byte, a request() call returns the
\* header-construction error without building an HTTP client or issuing an
\* exchange, whatever it was called with.
C10_BadTokenFailsBeforeIO ==
    (\E i \in 1..Len(client.access_token) :
         ControlByte(client.access_token[i])) =>
        /\ wire = <<>>
        /\ req.pc \in {"idle", "done"}
        /\ req.pc = "done" =>
              /\ req.result = Some(Err("InvalidHeaderValue"))
              /\ req.http_client = "none"

\* A DELETE with a body and query parameters, on a handle whose token holds a
\* line feed, has returned the header error.
C10_Witness ==
    /\ client.access_token = <<116, 10, 107>>
    /\ req.pc = "done"
    /\ req.verb = "DELETE"
    /\ is_some(req.json)
    /\ is_some(req.parameters)
    /\ req.result = Some(Err("InvalidHeaderValue"))


(***************************************************************************)
(* Claims about concurrent dispatch, checked under SpecConcurrent          *)
(***************************************************************************)
\* C11: request() never changes the handle, and calls that share it do not
\* interfere. Every exchange a caller has in flight goes to the base URL of
\* the handle's mode with "Bearer " and the handle's token as Authorization;
\* and every step of a caller's request() leaves the handle's token and mode
\* as they were and the other callers' calls untouched.
C11_SharedHandleUnchanged ==
    /\ [](\A i \in Callers :
            inflight[i].wire # <<>> =>
                /\ inflight[i].wire[1].url =
                      BaseUrlTable[client.client_mode]
                          \o PrefixTable[inflight[i].req.end_point.family]
                          \o inflight[i].req.end_point.path
                /\ inflight[i].wire[1].authorization =
                      <<66, 101, 97, 114, 101, 114, 32>>
                          \o client.access_token)
    /\ [][\A i \in Callers :
            inflight'[i] # inflight[i] =>
                /\ client' = client
                /\ \A j \in Callers \ {i} :
                      inflight'[j] = inflight[j]
         ]_vars

\* Two callers on a production handle with the token "tk", both with an
\* exchange issued, one awaiting send() and the other awaiting text().
C11_Witness ==
    /\ client = [access_token |-> <<116, 107>>, client_mode |-> "Production"]
    /\ inflight[1].req.pc = "send"
    /\ inflight[2].req.pc = "text"
    /\ inflight[1].wire[1].url = "https://connect.squareup.com/v2/locations"
    /\ inflight[2].wire[1].url =
          "https://connect.squareup.com/v2/locations/abc123"
    /\ inflight[2].wire[1].authorization = BearerTk


(***************************************************************************)
(* Claims about the Locations accessor, checked under Spec                 *)
(***************************************************************************)
\* The request() call r and its exchanges ws have this verb, this suffix on
\* the Locations family and this body, no query parameters, and at most one
\* exchange, which carries them.
LocationsCall(r, ws, mode, verb, path, json) ==
    /\ r.verb = verb
    /\ r.end_point = [family |-> "Locations", path |-> path]
    /\ r.json = json
    /\ r.parameters = None
    /\ Len(ws) <= 1
    /\ ws # <<>> =>
          /\ ws[1].verb = verb
          /\ ws[1].url = BaseUrlTable[mode] \o "locations" \o path
          /\ ws[1].query = <<>>
          /\ ws[1].json =
                IF json = None THEN None
                ELSE Some([content_type |-> "application/json",
                           value |-> json.val])

\* C12: every call of a Locations method is one request() call of the
\* method's fixed shape: list is GET Locations "" without a body, create is
\* POST Locations "" with the given body, update is PUT Locations "/" + id
\* with the given body, retrieve is GET Locations "/" + id without a body;
\* none has query parameters.
C12_LocationsRequestShapes ==
    [][/\ list =>
              LocationsCall(req', wire', client.client_mode, "GET", "", None)
       /\ \A w \in WrapperInputs :
              create(w) =>
                  LocationsCall(req', wire', client.client_mode, "POST", "",
                                Some(w))
       /\ \A w \in WrapperInputs, id \in LocationIds :
              update(w, id) =>
                  LocationsCall(req', wire', client.client_mode, "PUT",
                                "/" \o id, Some(w))
       /\ \A id \in LocationIds :
              retrieve(id) =>
                  LocationsCall(req', wire', client.client_mode, "GET",
                                "/" \o id, None)
      ]_vars

\* An update of location LBQ9DAD5WCHB0 has returned a response.
C12_Witness ==
    /\ req.pc = "done"
    /\ req.caller = "update"
    /\ is_ok(req.result.val)
    /\ wire[1].verb = "PUT"
    /\ wire[1].url =
          "https://connect.squareupsandbox.com/v2/locations/LBQ9DAD5WCHB0"
    /\ wire[1].json.val.value.location.name = Some("The Foo Bar")


(***************************************************************************)
(* Claims about the collection setters, checked under SpecBuilder          *)
(***************************************************************************)
\* C13: capabilities(v) overwrites the capabilities field with exactly v,
\* whatever add_capability or an earlier capabilities call had put there, and
\* business_hours(h) replaces every period added before it; an
\* add_capability or add_business_hours_period called afterwards appends to
\* the replaced collection.
C13_WholeSetterOverwrites ==
    /\ Called("capabilities") =>
          LET k == LastCall(calls, "capabilities")
          IN  body.location.capabilities =
                  Some(calls[k].arg \o ArgsAfter(calls, "add_capability", k))
    /\ Called("business_hours") =>
          LET k == LastCall(calls, "business_hours")
          IN  body.location.business_hours =
                  Some([periods |->
                          calls[k].arg.periods
                              \o ArgsAfter(calls, "add_business_hours_period",
                                           k)])
    /\ calls # <<>> =>
          LET last == calls[Len(calls)]
          IN  /\ last.op = "capabilities" =>
                    body.location.capabilities = Some(last.arg)
              /\ last.op = "business_hours" =>
                    body.location.business_hours = Some(last.arg)

\* A capability was added, capabilities(v) replaced it, and a capability
\* added afterwards follows v's elements.
C13_Witness ==
    /\ Len(calls) = 3
    /\ calls[1] = [op |-> "add_capability", arg |-> "CREDIT_CARD_PROCESSING"]
    /\ calls[2].op = "capabilities"
    /\ calls[2].arg = <<"AUTOMATIC_TRANSFERS", "CREDIT_CARD_PROCESSING">>
    /\ calls[3] = [op |-> "add_capability", arg |-> "AUTOMATIC_TRANSFERS"]
    /\ body.location.capabilities =
          Some(<<"AUTOMATIC_TRANSFERS", "CREDIT_CARD_PROCESSING",
                 "AUTOMATIC_TRANSFERS">>)


(***************************************************************************)
(* Claims about the handle's mode, checked under Spec                      *)
(***************************************************************************)
\* C14: a handle created by SquareClient::new is in Sandboxed mode and stays
\* there until production() is called; production() is idempotent; and once
\* the handle is in Production mode, no operation (production, clone, a
\* Locations method, a generic request and its steps) yields a handle in
\* Sandboxed mode.
C14_ProductionIsOneWay ==
    /\ client.client_mode = "Sandboxed"
    /\ \A t \in Tokens : new(t).client_mode = "Sandboxed"
    /\ [][/\ client'.client_mode # client.client_mode => Production
          /\ client.client_mode = "Production" =>
                client'.client_mode = "Production"
          /\ Production =>
                /\ client'.client_mode = "Production"
                /\ production(client') = client'
          /\ clone(client).client_mode = client.client_mode
         ]_vars

\* A handle switched to production has completed a retrieve call against the
\* production base URL.
C14_Witness ==
    /\ client.client_mode = "Production"
    /\ req.pc = "done"
    /\ req.caller = "retrieve"
    /\ wire # <<>>
    /\ wire[1].url = "https://connect.squareup.com/v2/locations/abc123"

====
